---- MODULE Spec2Model ----
(***************************************************************************)
(* Smart Traffic Route Optimizer: the graph store, Dijkstra, A* and the    *)
(* path reconstruction of smart_traffic_core.py, and the find_path handler *)
(* of app.py.                                                              *)
(*                                                                         *)
(* Numbers.  Edge weights and coordinates are integers (on the sample map: *)
(* tenths, so 2.2 is 22 and the point (2.0, 1.0) is (20, 10)).  A cost is  *)
(* an integer; an A* priority g + hypot(dx, dy) is kept exactly as the     *)
(* pair [g, s] with s = dx*dx + dy*dy and compared as g + sqrt(s).         *)
(* Python lists are sequences; node id i is position i + 1, and a negative *)
(* index counts from the end as Python's does.                             *)
(***************************************************************************)
EXTENDS Integers, Sequences, FiniteSets, TLC

VARIABLES g, call, res, rp

vars == <<g, call, res, rp>>

(* ------------------------------ bounds -------------------------------- *)
MaxNodes == 3
MaxEdges == 3
MaxWeight == 1
MaxCoord == 1

(* math.inf: above every finite cost of the model *)
INF == 1000000

(* ------------------------- Python list indexing ----------------------- *)
InRange(seq, i) == i >= -Len(seq) /\ i < Len(seq)

PyIdx(seq, i) == IF i >= 0 THEN i + 1 ELSE Len(seq) + i + 1

At(seq, i) == seq[PyIdx(seq, i)]

SetAt(seq, i, x) == [seq EXCEPT ![PyIdx(seq, i)] = x]

(* ------------------------------ Graph --------------------------------- *)
Edge(to, weight) == [to |-> to, weight |-> weight]

Node(id, x, y, name) == [id |-> id, x |-> x, y |-> y, name |-> name]

Graph == [nodes |-> <<>>, adj |-> <<>>]

size(gr) == Len(gr.nodes)

add_node(gr, name, x, y) ==
    [nodes |-> Append(gr.nodes, Node(Len(gr.nodes), x, y, name)),
     adj   |-> Append(gr.adj, <<>>)]

\* TRUE when _ensure_node(i) raises IndexError
ensure_node_raises(gr, i) == i < 0 \/ i >= Len(gr.nodes)

AppendEdge(gr, u, e) == [gr EXCEPT !.adj = SetAt(gr.adj, u, Append(At(gr.adj, u), e))]

\* the check of v left out: adj[u] is appended to before adj[v] is found missing
add_edge_unchecked_v(gr, u, v, w, bidir) ==
    IF ensure_node_raises(gr, u)
    THEN [err |-> "IndexError", g |-> gr]
    ELSE IF ensure_node_raises(gr, v)
         THEN [err |-> IF bidir THEN "IndexError" ELSE "none",
               g   |-> AppendEdge(gr, u, Edge(v, w))]
         ELSE LET g1 == AppendEdge(gr, u, Edge(v, w))
              IN  [err |-> "none",
                   g   |-> IF bidir THEN AppendEdge(g1, v, Edge(u, w)) ELSE g1]

add_edge(gr, u, v, w, bidir) ==
    IF ensure_node_raises(gr, u) \/ ensure_node_raises(gr, v)
    THEN [err |-> "IndexError", g |-> gr]
    ELSE LET g1 == AppendEdge(gr, u, Edge(v, w))
         IN  [err |-> "none",
              g   |-> IF bidir THEN AppendEdge(g1, v, Edge(u, w)) ELSE g1]

neighbors(gr, u) ==
    IF InRange(gr.adj, u)
    THEN [err |-> "none", val |-> At(gr.adj, u)]
    ELSE [err |-> "IndexError", val |-> <<>>]

get_node(gr, i) == At(gr.nodes, i)

(* ----------------------------- heuristic ------------------------------ *)
\* math.hypot(a.x - b.x, a.y - b.y), kept exactly: the value is the square
\* root of the number returned here
euclidean(a, b) == (a.x - b.x) * (a.x - b.x) + (a.y - b.y) * (a.y - b.y)

\* a + sqrt(s) < b + sqrt(t), for integers a, b and naturals s, t
RootLess(a, s, b, t) ==
    LET d == b - a
    IN  IF d = 0 THEN s < t
        ELSE IF d > 0
             THEN LET l == s - d * d - t IN l < 0 \/ l * l < 4 * d * d * t
             ELSE LET r == t - s - d * d IN r > 0 /\ 4 * d * d * s < r * r

\* a float g + hypot: [g, s] stands for g + sqrt(s); INF + anything is INF
FVal(gg, s) == [g |-> gg, s |-> s]

FInf == FVal(INF, 0)

FLess(a, b) ==
    IF a.g >= INF THEN FALSE
    ELSE IF b.g >= INF THEN TRUE
    ELSE RootLess(a.g, a.s, b.g, b.s)

(* ------------------------------ Dijkstra ------------------------------ *)
\* heapq on (distance, node) tuples: the least tuple, distance first
DTupleLess(a, b) == a[1] < b[1] \/ (a[1] = b[1] /\ a[2] < b[2])

DHeapPop(heap) == CHOOSE e \in heap : \A o \in heap : o = e \/ DTupleLess(e, o)

\* a relaxation that only reaches unreached nodes and never improves one
DijkstraRelaxEdgeFirstOnly(st, u, d, e) ==
    LET v == e.to
        nd == d + e.weight
    IN  IF At(st.dist, v) = INF
        THEN [dist   |-> SetAt(st.dist, v, nd),
              parent |-> SetAt(st.parent, v, u),
              heap   |-> st.heap \cup {<<nd, v>>}]
        ELSE st

\* a relaxation that improves dist[v] and forgets to record the predecessor
\* once one is set
DijkstraRelaxEdgeStaleParent(st, u, d, e) ==
    LET v == e.to
        nd == d + e.weight
    IN  IF nd < At(st.dist, v)
        THEN [dist   |-> SetAt(st.dist, v, nd),
              parent |-> IF At(st.parent, v) = -1
                         THEN SetAt(st.parent, v, u) ELSE st.parent,
              heap   |-> st.heap \cup {<<nd, v>>}]
        ELSE st

\* lines 87-92: one edge of the for loop
DijkstraRelaxEdge(st, u, d, e) ==
    LET v == e.to
        nd == d + e.weight
    IN  IF nd < At(st.dist, v)
        THEN [dist   |-> SetAt(st.dist, v, nd),
              parent |-> SetAt(st.parent, v, u),
              heap   |-> st.heap \cup {<<nd, v>>}]
        ELSE st

RECURSIVE DijkstraRelax(_, _, _, _)
DijkstraRelax(st, u, d, edges) ==
    IF edges = <<>> THEN st
    ELSE DijkstraRelax(DijkstraRelaxEdge(st, u, d, Head(edges)), u, d, Tail(edges))

\* lines 82-92: the while loop, run until the heap is empty
RECURSIVE DijkstraLoop(_, _)
DijkstraLoop(gr, st) ==
    IF st.heap = {} THEN st
    ELSE LET e == DHeapPop(st.heap)
             d == e[1]
             u == e[2]
             popped == [st EXCEPT !.heap = st.heap \ {e}]
         IN  IF d > At(st.dist, u)
             THEN DijkstraLoop(gr, popped)
             ELSE DijkstraLoop(gr, DijkstraRelax(popped, u, d, At(gr.adj, u)))

dijkstra(gr, src) ==
    LET n == size(gr)
        dist0 == [i \in 1..n |-> INF]
        parent0 == [i \in 1..n |-> -1]
    IN  IF ~InRange(dist0, src)
        THEN [err |-> "IndexError", dist |-> <<>>, parent |-> <<>>, heap |-> {}]
        ELSE LET st == DijkstraLoop(gr, [dist   |-> SetAt(dist0, src, 0),
                                         parent |-> parent0,
                                         heap   |-> {<<0, src>>}])
             IN  [err |-> "none", dist |-> st.dist, parent |-> st.parent,
                  heap |-> st.heap]

(* -------------------------------- A* ---------------------------------- *)
heur(gr, u, dst) == euclidean(get_node(gr, u), get_node(gr, dst))

ATupleLess(a, b) ==
    \/ FLess(a[1], b[1])
    \/ ~FLess(b[1], a[1]) /\ a[2] < b[2]

AHeapPop(heap) == CHOOSE e \in heap : \A o \in heap : o = e \/ ATupleLess(e, o)

\* a relaxation that only reaches unreached nodes and never improves one
AstarRelaxEdgeFirstOnly(gr, dst, st, u, e) ==
    LET v == e.to
        tentative == At(st.gscore, u) + e.weight
    IN  IF At(st.gscore, v) = INF
        THEN LET f == FVal(tentative, heur(gr, v, dst))
             IN  [st EXCEPT !.parent = SetAt(st.parent, v, u),
                            !.gscore = SetAt(st.gscore, v, tentative),
                            !.fscore = SetAt(st.fscore, v, f),
                            !.heap = st.heap \cup {<<f, v>>}]
        ELSE st

\* lines 122-128: one edge of the for loop
AstarRelaxEdge(gr, dst, st, u, e) ==
    LET v == e.to
        tentative == At(st.gscore, u) + e.weight
    IN  IF tentative < At(st.gscore, v)
        THEN LET f == FVal(tentative, heur(gr, v, dst))
             IN  [st EXCEPT !.parent = SetAt(st.parent, v, u),
                            !.gscore = SetAt(st.gscore, v, tentative),
                            !.fscore = SetAt(st.fscore, v, f),
                            !.heap = st.heap \cup {<<f, v>>}]
        ELSE st

RECURSIVE AstarRelax(_, _, _, _, _)
AstarRelax(gr, dst, st, u, edges) ==
    IF edges = <<>> THEN st
    ELSE AstarRelax(gr, dst, AstarRelaxEdge(gr, dst, st, u, Head(edges)), u, Tail(edges))

\* lines 113-128: the while loop, left at the first pop of dst
RECURSIVE AstarLoop(_, _, _)
AstarLoop(gr, dst, st) ==
    IF st.heap = {} THEN st
    ELSE LET e == AHeapPop(st.heap)
             f == e[1]
             u == e[2]
             popped == [st EXCEPT !.heap = st.heap \ {e}]
         IN  IF u = dst THEN popped
             ELSE IF FLess(At(st.fscore, u), f)
                  THEN AstarLoop(gr, dst, popped)
                  ELSE AstarLoop(gr, dst, AstarRelax(gr, dst, popped, u, At(gr.adj, u)))

astar(gr, src, dst) ==
    LET n == size(gr)
        gscore0 == [i \in 1..n |-> INF]
        fscore0 == [i \in 1..n |-> FInf]
        parent0 == [i \in 1..n |-> -1]
    IN  IF ~InRange(gscore0, src) \/ ~InRange(gr.nodes, dst)
        THEN [err |-> "IndexError", dist |-> <<>>, parent |-> <<>>, heap |-> {}]
        ELSE LET f0 == FVal(0, heur(gr, src, dst))
                 st == AstarLoop(gr, dst, [gscore |-> SetAt(gscore0, src, 0),
                                           fscore |-> SetAt(fscore0, src, f0),
                                           parent |-> parent0,
                                           heap   |-> {<<f0, src>>}])
             IN  [err |-> "none", dist |-> st.gscore, parent |-> st.parent,
                  heap |-> st.heap]

(* ------------------------- path reconstruction ------------------------ *)
RECURSIVE Reverse(_)
Reverse(s) == IF s = <<>> THEN <<>> ELSE Append(Reverse(Tail(s)), Head(s))

\* path.append(cur).  A walk that never repeats a node appends at most
\* Len(parent) ids; the model keeps one more, and of the appends after that
\* (which only a walk caught in a cycle makes, the list growing without end)
\* it keeps the parity of their number.
RPAppend(st) ==
    IF Len(st.path) <= Len(st.parent)
    THEN [st EXCEPT !.path = Append(st.path, st.cur)]
    ELSE [st EXCEPT !.more = 1 - st.more]

RPStart(parent, src, dst) ==
    [pc |-> "loop", parent |-> parent, src |-> src, dst |-> dst, cur |-> dst,
     path |-> <<>>, more |-> 0, result |-> <<>>]

\* lines 137-141: the loop test and one pass of the body
RPLoop(st) ==
    IF st.cur = -1 THEN [st EXCEPT !.pc = "end"]
    ELSE IF st.cur = st.src THEN [RPAppend(st) EXCEPT !.pc = "end"]
    ELSE IF ~InRange(st.parent, st.cur)
         THEN [RPAppend(st) EXCEPT !.pc = "raised"]
         ELSE [RPAppend(st) EXCEPT !.cur = At(st.parent, st.cur)]

\* the final check left out: whatever was walked is returned
RPEndUnchecked(st) == [st EXCEPT !.pc = "done", !.result = Reverse(st.path)]

\* lines 142-145
RPEnd(st) ==
    LET path == Reverse(st.path)
    IN  [st EXCEPT !.pc = "done",
                   !.result = IF path = <<>> \/ path[1] # st.src THEN <<>> ELSE path]

RECURSIVE RPRun(_)
RPRun(st) ==
    IF st.pc = "loop" THEN RPRun(RPLoop(st))
    ELSE IF st.pc = "end" THEN RPEnd(st)
    ELSE st

reconstruct_path(parent, src, dst) == RPRun(RPStart(parent, src, dst))

(* ----------------------------- sample map ----------------------------- *)
RECURSIVE AddNodes(_, _)
AddNodes(gr, ns) ==
    IF ns = <<>> THEN gr
    ELSE AddNodes(add_node(gr, Head(ns)[1], Head(ns)[2], Head(ns)[3]), Tail(ns))

RECURSIVE AddEdges(_, _)
AddEdges(gr, es) ==
    IF es = <<>> THEN gr
    ELSE AddEdges(add_edge(gr, Head(es)[1], Head(es)[2], Head(es)[3], Head(es)[4]).g,
                  Tail(es))

\* lengths in tenths: 2.2 is 22, the point (2.0, 1.0) is (20, 10)
sample_map ==
    AddEdges(
        AddNodes(Graph, << <<"A:Station", 0, 0>>,    <<"B:Market", 20, 10>>,
                           <<"C:College", 40, 0>>,   <<"D:Hospital", 10, -20>>,
                           <<"E:Mall", 30, -20>>,    <<"F:Airport", 60, -10>> >>),
        << <<0, 1, 22, TRUE>>, <<0, 3, 25, TRUE>>, <<1, 2, 25, TRUE>>,
           <<1, 4, 30, TRUE>>, <<2, 5, 28, TRUE>>, <<3, 4, 18, TRUE>>,
           <<4, 5, 30, TRUE>>, <<1, 3, 34, TRUE>> >>)

(* ------------------------- state of the model ------------------------- *)
NoCall == [op |-> "none", u |-> 0, v |-> 0, w |-> 0, bidir |-> FALSE,
           err |-> "none", val |-> <<>>]

NoRes == [op |-> "none", src |-> 0, dst |-> 0, err |-> "none",
          dist |-> <<>>, parent |-> <<>>, frontier |-> {}, path |-> <<>>, cost |-> 0]

NoRp == [pc |-> "idle", parent |-> <<>>, src |-> 0, dst |-> 0, cur |-> 0,
         path |-> <<>>, more |-> 0, result |-> <<>>]

RECURSIVE SumLen(_)
SumLen(ss) == IF ss = <<>> THEN 0 ELSE Len(Head(ss)) + SumLen(Tail(ss))

TotalEdges(gr) == SumLen(gr.adj)

(* --------------------------- the graph store -------------------------- *)
StoreInit == g = Graph /\ call = NoCall /\ res = NoRes /\ rp = NoRp

\* add_node(name, x, y), up to MaxNodes nodes; the store reads neither the name
\* nor the coordinates, so y is 0 here
AddNode ==
    /\ size(g) < MaxNodes
    /\ \E x \in 0..MaxCoord :
         /\ g' = add_node(g, "n", x, 0)
         /\ call' = [NoCall EXCEPT !.op = "add_node", !.u = size(g)]
    /\ UNCHANGED <<res, rp>>

\* add_edge(u, v, w, bidir) with ids from -1 (below the range) to N (above it),
\* while fewer than MaxEdges - 1 edges are stored
AddEdge ==
    /\ TotalEdges(g) + 1 < MaxEdges
    /\ \E u \in -1..size(g), v \in -1..size(g), w \in 0..MaxWeight, bidir \in BOOLEAN :
         LET r == add_edge(g, u, v, w, bidir)
         IN  /\ g' = r.g
             /\ call' = [NoCall EXCEPT !.op = "add_edge", !.u = u, !.v = v, !.w = w,
                                       !.bidir = bidir, !.err = r.err]
    /\ UNCHANGED <<res, rp>>

\* neighbors(u) with u from -N - 1 to N
Neighbors ==
    /\ \E u \in (-size(g) - 1)..size(g) :
         LET r == neighbors(g, u)
         IN  call' = [NoCall EXCEPT !.op = "neighbors", !.u = u, !.err = r.err,
                                    !.val = r.val]
    /\ UNCHANGED <<g, res, rp>>

StoreNext == AddNode \/ AddEdge \/ Neighbors

StoreSpec == StoreInit /\ [][StoreNext]_vars

(* ------------------------------ searches ------------------------------ *)
\* The graphs a search starts from: MaxNodes nodes, the first at the origin and
\* the others on the grid 0..MaxCoord, and at most MaxEdges directed edges
\* (add_edge with bidir = False) with weights 0..MaxWeight, in every order.
NodeSpecs == {ns \in [1..MaxNodes -> {"n"} \X (0..MaxCoord) \X (0..MaxCoord)] :
                 ns[1] = <<"n", 0, 0>>}

EdgeCalls == (0..(MaxNodes - 1)) \X (0..(MaxNodes - 1)) \X (0..MaxWeight) \X {FALSE}

EdgeCallSeqs == UNION {[1..k -> EdgeCalls] : k \in 0..MaxEdges}

Graphs == {AddEdges(AddNodes(Graph, ns), es) : ns \in NodeSpecs, es \in EdgeCallSeqs}

Init == g \in Graphs /\ call = NoCall /\ res = NoRes /\ rp = NoRp

Dijkstra ==
    /\ \E src \in -1..size(g) :
         LET r == dijkstra(g, src)
         IN  res' = [NoRes EXCEPT !.op = "dijkstra", !.src = src, !.dst = -1,
                                  !.err = r.err, !.dist = r.dist,
                                  !.parent = r.parent, !.frontier = r.heap]
    /\ UNCHANGED <<g, call, rp>>

Astar ==
    /\ \E src \in 0..(size(g) - 1), dst \in 0..(size(g) - 1) :
         LET r == astar(g, src, dst)
         IN  res' = [NoRes EXCEPT !.op = "astar", !.src = src, !.dst = dst,
                                  !.err = r.err, !.dist = r.dist,
                                  !.parent = r.parent, !.frontier = r.heap]
    /\ UNCHANGED <<g, call, rp>>

\* One query per behaviour: a search reads g alone and builds its arrays anew,
\* so a second query reaches no state that a first one does not.
QueryDijkstra == res.op = "none" /\ Dijkstra

QueryAstar == res.op = "none" /\ Astar

Next == QueryDijkstra \/ QueryAstar

Spec == Init /\ [][Next]_vars

(* ------------------------ the application (app.py) -------------------- *)
SampleInit == g = sample_map /\ call = NoCall /\ res = NoRes /\ rp = NoRp

\* find_path: the search the request names, then the path when the cost at
\* dst is finite
FindPath ==
    /\ \E algo \in {"dijkstra", "astar"},
          src \in 0..(size(g) - 1), dst \in 0..(size(g) - 1) :
         LET r == IF algo = "dijkstra" THEN dijkstra(g, src) ELSE astar(g, src, dst)
             finald == At(r.dist, dst)
         IN  res' = IF finald < INF
                    THEN [NoRes EXCEPT !.op = "find_path_" \o algo, !.src = src,
                                       !.dst = dst,
                                       !.path = reconstruct_path(r.parent, src, dst).result,
                                       !.cost = finald]
                    ELSE [NoRes EXCEPT !.op = "find_path_" \o algo, !.src = src,
                                       !.dst = dst, !.err = "No path found"]
    /\ UNCHANGED <<g, call, rp>>

SampleNext == Dijkstra \/ Astar \/ FindPath

SampleSpec == SampleInit /\ [][SampleNext]_vars

(* ---------------- reconstruct_path on any predecessor array ----------- *)
RPInit ==
    /\ g = Graph /\ call = NoCall /\ res = NoRes
    /\ \E parent \in [1..MaxNodes -> -1..(MaxNodes - 1)],
          src \in 0..(MaxNodes - 1), dst \in 0..(MaxNodes - 1) :
         rp = RPStart(parent, src, dst)

RPStep ==
    /\ rp.pc = "loop"
    /\ rp' = RPLoop(rp)
    /\ UNCHANGED <<g, call, res>>

RPReturn ==
    /\ rp.pc = "end"
    /\ rp' = RPEnd(rp)
    /\ UNCHANGED <<g, call, res>>

RPNext == RPStep \/ RPReturn

RPSpec == RPInit /\ [][RPNext]_vars

\* the interpreter runs the call: a step that can be taken is taken
RPFairSpec == RPSpec /\ WF_vars(RPNext)

(* ======================= reference definitions ======================== *)
NodeIds(gr) == 0..(size(gr) - 1)

Min(S) == CHOOSE x \in S : \A y \in S : x <= y

\* the directed edges of gr as <<u, v, w>>
EdgeSet(gr) ==
    UNION {{<<u, At(gr.adj, u)[k].to, At(gr.adj, u)[k].weight>> :
               k \in 1..Len(At(gr.adj, u))} : u \in NodeIds(gr)}

\* The least total weight of a directed path from src to each node (INF when
\* there is none), by size(gr) rounds of relaxing every edge (Bellman-Ford).
BFRound(gr, d) ==
    [i \in 1..size(gr) |->
        Min({d[i]} \cup {d[e[1] + 1] + e[3] :
                            e \in {x \in EdgeSet(gr) : x[2] = i - 1 /\ d[x[1] + 1] < INF}})]

RECURSIVE BFIter(_, _, _)
BFIter(gr, d, k) == IF k = 0 THEN d ELSE BFIter(gr, BFRound(gr, d), k - 1)

TrueDist(gr, src) ==
    BFIter(gr, [i \in 1..size(gr) |-> IF i = src + 1 THEN 0 ELSE INF], size(gr))

Reachable(gr, src, dst) == TrueDist(gr, src)[dst + 1] < INF

\* heur(n, dst) is at most the least cost from n to dst, for every node n
Admissible(gr, dst) ==
    \A n \in NodeIds(gr) :
        LET d == TrueDist(gr, n)[dst + 1]
        IN  d >= INF \/ ~RootLess(d, 0, 0, heur(gr, n, dst))

HasEdge(gr, u, v) == \E e \in EdgeSet(gr) : e[1] = u /\ e[2] = v

MinEdge(gr, u, v) == Min({e[3] : e \in {x \in EdgeSet(gr) : x[1] = u /\ x[2] = v}})

IsWalk(gr, path) == \A i \in 1..(Len(path) - 1) : HasEdge(gr, path[i], path[i + 1])

RECURSIVE PathWeight(_, _)
PathWeight(gr, path) ==
    IF Len(path) < 2 THEN 0
    ELSE MinEdge(gr, path[1], path[2]) + PathWeight(gr, Tail(path))

ValidSrc == res.src \in NodeIds(g)

\* the destinations a returned search speaks about
Dests == IF res.op = "astar" THEN {res.dst} ELSE NodeIds(g)

Searched == res.op \in {"dijkstra", "astar"} /\ ValidSrc

PathOf(d) == reconstruct_path(res.parent, res.src, d)

(* ============================== claims ================================ *)

\* C1: with an admissible heuristic and a reachable destination, the cost A*
\* returns at the destination is the cost Dijkstra returns there.
C1_AstarCostIsDijkstraCost ==
    (/\ res.op = "astar"
     /\ Reachable(g, res.src, res.dst)
     /\ Admissible(g, res.dst))
    => /\ res.err = "none"
       /\ At(res.dist, res.dst) = At(dijkstra(g, res.src).dist, res.dst)

\* an admissible query whose route has two edges and whose heuristic at the
\* source is not zero
C1_Witness ==
    /\ res.op = "astar"
    /\ Reachable(g, res.src, res.dst)
    /\ Admissible(g, res.dst)
    /\ heur(g, res.src, res.dst) > 0
    /\ Len(PathOf(res.dst).result) = 3

\* C4: for a finite reported cost, the reconstructed path runs from source to
\* destination along edges of the graph and its weight is the reported cost.
C4_PathMatchesCost ==
    Searched =>
        \A d \in Dests :
            At(res.dist, d) < INF =>
                LET r == PathOf(d)
                    path == r.result
                IN  /\ r.pc = "done"
                    /\ path # <<>>
                    /\ path[1] = res.src
                    /\ path[Len(path)] = d
                    /\ IsWalk(g, path)
                    /\ PathWeight(g, path) = At(res.dist, d)

\* an A* result whose route has two edges, between parallel edges of
\* different weights somewhere in the graph
C4_Witness ==
    /\ res.op = "astar"
    /\ At(res.dist, res.dst) < INF
    /\ Len(PathOf(res.dst).result) = 3
    /\ \E e1 \in EdgeSet(g), e2 \in EdgeSet(g) :
          e1[1] = e2[1] /\ e1[2] = e2[2] /\ e1[3] # e2[3]

\* C7: dijkstra with a source id outside [0, N) fails with the out-of-range
\* error and returns no arrays.
C7_DijkstraRejectsBadSource ==
    (res.op = "dijkstra" /\ ~ValidSrc) => (res.err = "IndexError" /\ res.dist = <<>>)

\* C8: for distinct valid ids with no directed path between them, both searches
\* return normally with cost INF and predecessor -1 at the destination, and
\* reconstruct_path returns the empty path.
C8_UnreachableIsEmptyPath ==
    Searched =>
        \A d \in Dests :
            (d # res.src /\ ~Reachable(g, res.src, d)) =>
                /\ res.err = "none"
                /\ At(res.dist, d) = INF
                /\ At(res.parent, d) = -1
                /\ PathOf(d).pc = "done"
                /\ PathOf(d).result = <<>>

\* an A* query to a node that has edges of its own and cannot be reached
C8_Witness ==
    /\ res.op = "astar"
    /\ res.dst # res.src
    /\ ~Reachable(g, res.src, res.dst)
    /\ At(g.adj, res.dst) # <<>>
    /\ At(g.adj, res.src) # <<>>

\* C9: dijkstra from a valid source ends with an empty frontier, dist[source]
\* is 0, dist[n] is the least path weight for every reachable n, and an
\* unreachable n keeps INF and -1.
C9_DijkstraIsShortest ==
    (res.op = "dijkstra" /\ ValidSrc) =>
        /\ res.err = "none"
        /\ res.frontier = {}
        /\ At(res.dist, res.src) = 0
        /\ \A n \in NodeIds(g) :
              /\ At(res.dist, n) = TrueDist(g, res.src)[n + 1]
              /\ ~Reachable(g, res.src, n) => (At(res.dist, n) = INF /\ At(res.parent, n) = -1)

\* a search over a self-loop, a zero-weight edge and parallel edges of
\* different weights, with a node left unreached
C9_Witness ==
    /\ res.op = "dijkstra" /\ ValidSrc
    /\ \E e \in EdgeSet(g) : e[1] = e[2]
    /\ \E e1 \in EdgeSet(g), e2 \in EdgeSet(g) :
          e1[1] = e2[1] /\ e1[2] = e2[2] /\ e1[3] # e2[3] /\ e1[1] = res.src
    /\ \E n \in NodeIds(g) : At(res.dist, n) = INF
    /\ \E n \in NodeIds(g) : n # res.src /\ At(res.dist, n) = 0

C10_SampleAstarIsOptimal ==
    /\ res.op = "astar" =>
          At(res.dist, res.dst) = At(dijkstra(g, res.src).dist, res.dst)
    /\ res.op = "find_path_astar" =>
          res.cost = At(dijkstra(g, res.src).dist, res.dst)

\* C3: reconstruct_path returns, whatever the predecessor array.
C3_ReconstructReturns == <>(rp.pc = "done")

\* C5: add_edge with u or v outside [0, N) fails with the out-of-range error
\* and leaves the nodes and every adjacency list as they were.
C5_BadEdgeLeavesGraph ==
    [][(/\ call'.op = "add_edge"
        /\ call' # call
        /\ ensure_node_raises(g, call'.u) \/ ensure_node_raises(g, call'.v))
       => (call'.err = "IndexError" /\ g' = g)]_vars

\* a refused bidirectional edge with one valid end, on a graph that has edges
C5_Witness ==
    /\ call.op = "add_edge"
    /\ call.bidir
    /\ call.err = "IndexError"
    /\ ~ensure_node_raises(g, call.u)
    /\ ensure_node_raises(g, call.v)
    /\ At(g.adj, call.u) # <<>>

\* C6: neighbors(u) fails with the out-of-range error for every u < 0 and
\* every u >= N.
C6_NeighborsRejectsBadId ==
    (call.op = "neighbors" /\ (call.u < 0 \/ call.u >= size(g)))
    => call.err = "IndexError"

====
